---------------------------- MODULE Spec2Model ----------------------------
(***************************************************************************)
(* Snapshot diffing and persistence engine of application/utils.py:        *)
(* append_hashid_col, compare_tables, save_to_database, get_saved_data,    *)
(* run_quote_check and format_to_html_summary.                             *)
(*                                                                         *)
(* A cell value is a record [kind, v]: kind is "null" (a missing cell,     *)
(* NaN/None), "text" or "num"; v is the text Python's str() gives for a    *)
(* text or a number.  A row is a function from column names to values; a   *)
(* table (DataFrame) is a sequence of rows.  SHA-256 is taken as injective *)
(* on its input, so a hashid is modelled by the string that is hashed.     *)
(***************************************************************************)
EXTENDS Integers, Sequences, FiniteSets, TLC

\* Largest number of rows of an ingested dataset.
MaxRows == 2

----------------------------------------------------------------------------
\* Values and rows

Null == [kind |-> "null", v |-> ""]
Text(s) == [kind |-> "text", v |-> s]
Num(s) == [kind |-> "num", v |-> s]

\* pandas isnull(): a missing cell
IsNull(x) == x.kind = "null"

\* The seven columns of a project header, in the order of project_col_names.
project_col_names ==
    << "Rep Name", "Project Name", "Project City", "Project State",
       "Quote Name", "Create Date", "Quote Status" >>

\* The columns format_to_html_summary compares to select a project's rows.
filter_col_names ==
    << "Rep Name", "Project Name", "Project City", "Project State",
       "Quote Name" >>

\* The columns of the detail table.
detail_col_names ==
    << "Product Group", "Product SKU", "Product Quantity",
       "Product Total Amount" >>

\* Column schema of the ingested dataset (data.columns.tolist()).
Cols == project_col_names \o detail_col_names

ColSet == {Cols[i] : i \in 1..Len(Cols)}

\* The rows the portal may serve: a base row and single-cell variants of it.
RowA ==
    [c \in ColSet |->
        CASE c = "Rep Name" -> Text("rep")
          [] c = "Project Name" -> Text("p")
          [] c = "Project City" -> Text("city")
          [] c = "Project State" -> Text("TX")
          [] c = "Quote Name" -> Text("q")
          [] c = "Create Date" -> Text("2022-01-01")
          [] c = "Quote Status" -> Text("Approved")
          [] c = "Product Group" -> Text("g")
          [] c = "Product SKU" -> Text("sku")
          [] c = "Product Quantity" -> Num("1")
          [] OTHER -> Num("9.5")]

RowNull == [RowA EXCEPT !["Project Name"] = Null]
RowNan == [RowA EXCEPT !["Project Name"] = Text("nan")]
RowStatus == [RowA EXCEPT !["Quote Status"] = Text("Expired")]
RowQty == [RowA EXCEPT !["Product Quantity"] = Text("1")]

Rows == {RowA, RowNull, RowNan, RowStatus, RowQty}

RECURSIVE SeqsUpTo(_, _)
SeqsUpTo(S, n) ==
    IF n = 0 THEN {<< >>}
    ELSE LET shorter == SeqsUpTo(S, n - 1)
         IN shorter \cup {Append(s, x) : s \in {t \in shorter : Len(t) = n - 1}, x \in S}

\* The datasets get_data() may return.
Datasets == SeqsUpTo(Rows, MaxRows)

----------------------------------------------------------------------------
\* append_hashid_col

\* str(row.at[col]): a missing cell prints as "nan", a text as itself, a
\* number as its decimal form.
Str(x) == IF IsNull(x) THEN "nan" ELSE x.v

RECURSIVE Join(_, _, _)
\* ''.join(col_data) over cols[i..]
Join(row, cols, i) ==
    IF i > Len(cols) THEN "" ELSE Str(row[cols[i]]) \o Join(row, cols, i + 1)

\* func(row, cols): the hex digest of the joined string (sha256 as injective)
func(row, cols) == Join(row, cols, 1)

\* new_df with the column "hashid" appended
WithHashid(row) == [c \in ColSet \cup {"hashid"} |->
                       IF c = "hashid" THEN Text(func(row, Cols)) ELSE row[c]]

append_hashid_col(data) == [i \in 1..Len(data) |-> WithHashid(data[i])]

----------------------------------------------------------------------------
\* The persisted table 'data' behind DATABASE_URL

\* No table named 'data' exists: nothing was ever written.
NoTable == [exists |-> FALSE, rows |-> << >>]

Table(rows) == [exists |-> TRUE, rows |-> rows]

\* to_sql with if_exists='append': the rows are added to those of the table.
save_append(st, df) == Table(st.rows \o df)

\* data.to_sql('data', conn, if_exists='replace', index=False): the table is
\* dropped and created again from data, whatever it held.
save_to_database(st, df) == Table(df)

\* SELECT * FROM data raises when the table does not exist.
CanRead(st) == st.exists

\* pandas.read_sql('SELECT * FROM data', conn)
get_saved_data(st) == st.rows

\* A test of the columns instead of the rows: a stored table always has some.
DfNoColumns(df) == Len(Cols) = 0

\* DataFrame.empty of a table that has columns: it has no rows.
DfEmpty(df) == Len(df) = 0

----------------------------------------------------------------------------
\* compare_tables

\* The columns of the other side of a join row that matched nothing.
NullRow == [c \in ColSet |-> Null]

RECURSIVE Flatten(_, _)
Flatten(seqs, i) ==
    IF i > Len(seqs) THEN << >> ELSE seqs[i] \o Flatten(seqs, i + 1)

Matches(table, h) == SelectSeq(table, LAMBDA r : r["hashid"] = h)

\* new_table_cp.join(old_table, how="left"): every row of new, in order, once
\* per row of old with the same hashid, or once with the right side null.
left_join(new, old) ==
    Flatten([i \in 1..Len(new) |->
               LET m == Matches(old, new[i]["hashid"])
               IN IF m = << >> THEN << [l |-> new[i], r |-> NullRow] >>
                  ELSE [j \in 1..Len(m) |-> [l |-> new[i], r |-> m[j]]]], 1)

\* new_table_cp.join(old_table, how="right"): every row of old, in order, once
\* per row of new with the same hashid, or once with the left side null.
right_join(new, old) ==
    Flatten([i \in 1..Len(old) |->
               LET m == Matches(new, old[i]["hashid"])
               IN IF m = << >> THEN << [l |-> NullRow, r |-> old[i]] >>
                  ELSE [j \in 1..Len(m) |-> [l |-> m[j], r |-> old[i]]]], 1)

\* left_join[left_join['Project Name_right'].isnull()]
left_not_right(new, old) ==
    SelectSeq(left_join(new, old), LAMBDA p : IsNull(p.r["Project Name"]))

\* right_join[right_join['Project Name_left'].isnull()]
right_not_left(new, old) ==
    SelectSeq(right_join(new, old), LAMBDA p : IsNull(p.l["Project Name"]))

\* left_not_right.loc[:, output_columns]: the new side, indexed by hashid
added(new, old) ==
    LET j == left_not_right(new, old) IN [i \in 1..Len(j) |-> j[i].l]

\* right_not_left.loc[:, output_columns]: the old side, indexed by hashid
removed(new, old) ==
    LET j == right_not_left(new, old) IN [i \in 1..Len(j) |-> j[i].r]

\* The mapping without keys.
EmptyMap == << >>

\* differences: a key is set only when its dataset is not empty.
compare_tables(new, old) ==
    LET a == added(new, old)
        r == removed(new, old)
        keys == (IF a # << >> THEN {"Added"} ELSE {})
                  \cup (IF r # << >> THEN {"Removed"} ELSE {})
    IN [k \in keys |-> IF k = "Added" THEN a ELSE r]

----------------------------------------------------------------------------
\* format_to_html_summary

\* df.loc[:, project_col_names] of one row, as a tuple
ProjectOf(row) == [i \in 1..Len(project_col_names) |-> row[project_col_names[i]]]

RECURSIVE drop_duplicates(_, _, _)
\* the rows of seq[i..] not seen before, in first-seen order
drop_duplicates(seq, i, seen) ==
    IF i > Len(seq) THEN << >>
    ELSE IF seq[i] \in seen THEN drop_duplicates(seq, i + 1, seen)
    ELSE << seq[i] >> \o drop_duplicates(seq, i + 1, seen \cup {seq[i]})

all_projects_dict(df) ==
    drop_duplicates([i \in 1..Len(df) |-> ProjectOf(df[i])], 1, {})

\* df[col] == value, elementwise: a missing cell equals nothing.
PdEq(x, y) == ~IsNull(x) /\ ~IsNull(y) /\ x = y

\* the boolean mask of df.loc[...]: the first five values of the project
RowMatches(row, project) ==
    \A i \in 1..Len(filter_col_names) : PdEq(row[filter_col_names[i]], project[i])

DetailOf(row) == [i \in 1..Len(detail_col_names) |-> row[detail_col_names[i]]]

records(df, project) ==
    LET sel == SelectSeq(df, LAMBDA row : RowMatches(row, project))
    IN [i \in 1..Len(sel) |-> DetailOf(sel[i])]

\* One block (header and detail table) per project, in the order of
\* all_projects_dict.
format_to_html_summary(df) ==
    LET ps == all_projects_dict(df)
    IN [i \in 1..Len(ps) |-> [project |-> ps[i], records |-> records(df, ps[i])]]

----------------------------------------------------------------------------
\* State

VARIABLES
    store,      \* the table 'data' of the database
    pc,         \* position of the invocation
    data,       \* get_data()'s dataset
    new_table,  \* the local new_table of run_quote_check, with hashid
    branch,     \* the branch taken at line 181: "none", "first" or "diff"
    diffs,      \* the local diffs of run_quote_check
    ret,        \* how run_quote_check ended: "none", "value" or "raised"
    result,     \* the mapping run_quote_check returned
    err,        \* where the exception was raised
    report,     \* what format_to_html_summary returned
    key,        \* the key of result whose dataset was formatted, or "none"
    store0,     \* history: the table when the invocation began
    prev        \* history: the snapshot of the previous invocation, if it returned

vars == << store, pc, data, new_table, branch, diffs, ret, result, err, report,
           key, store0, prev >>

NoPrev == [valid |-> FALSE, rows |-> << >>]

\* The database is not the program's: at the first invocation the table 'data'
\* is missing (nothing was ever written) or was provisioned without rows.
Init ==
    /\ store \in {NoTable, Table(<< >>)}
    /\ pc = "idle"
    /\ data = << >>
    /\ new_table = << >>
    /\ branch = "none"
    /\ diffs = EmptyMap
    /\ ret = "none"
    /\ result = EmptyMap
    /\ err = "none"
    /\ report = << >>
    /\ key = "none"
    /\ store0 = store
    /\ prev = NoPrev

\* An exception leaves run_quote_check: nothing catches it.
Raise(where) ==
    /\ pc' = "failed"
    /\ ret' = "raised"
    /\ err' = where

\* line 178: new_table = get_data()
GetData(d) ==
    /\ pc = "idle"
    /\ data' = d
    /\ pc' = "hash"
    /\ UNCHANGED << store, new_table, branch, diffs, ret, result, err, report, key,
                    store0, prev >>

\* line 178: the portal cannot be reached
GetDataRaises ==
    /\ pc = "idle"
    /\ Raise("fetch")
    /\ UNCHANGED << store, data, new_table, branch, diffs, result, report, key,
                    store0, prev >>

\* line 179: new_table = append_hashid_col(new_table)
AppendHashid ==
    /\ pc = "hash"
    /\ new_table' = append_hashid_col(data)
    /\ pc' = "check"
    /\ UNCHANGED << store, data, branch, diffs, ret, result, err, report, key,
                    store0, prev >>

\* line 109 on a dataset without rows: DataFrame.apply returns a frame, not a
\* column, and pandas versions differ on assigning it to new_df["hashid"].
AppendHashidRaises ==
    /\ pc = "hash"
    /\ data = << >>
    /\ Raise("hash")
    /\ UNCHANGED << store, data, new_table, branch, diffs, result, report, key,
                    store0, prev >>

\* line 181: if get_saved_data().empty
Check ==
    /\ pc = "check"
    /\ IF ~CanRead(store)
       THEN /\ Raise("no_table")
            /\ UNCHANGED branch
       ELSE /\ branch' = IF DfEmpty(get_saved_data(store)) THEN "first" ELSE "diff"
            /\ pc' = IF DfEmpty(get_saved_data(store)) THEN "save" ELSE "compare"
            /\ UNCHANGED << ret, err >>
    /\ UNCHANGED << store, data, new_table, diffs, result, report, key, store0, prev >>

\* line 181: the database cannot be reached
CheckRaises ==
    /\ pc = "check"
    /\ Raise("io_read")
    /\ UNCHANGED << store, data, new_table, branch, diffs, result, report, key,
                    store0, prev >>

\* line 185: diffs = compare_tables(new_table)
Compare ==
    /\ pc = "compare"
    /\ CanRead(store)
    /\ diffs' = compare_tables(new_table, get_saved_data(store))
    /\ pc' = "save"
    /\ UNCHANGED << store, data, new_table, branch, ret, result, err, report, key,
                    store0, prev >>

\* run_quote_check with the two statements of its else branch exchanged: the
\* table is written before compare_tables reads it and fails.
CompareRaisesAfterSave ==
    /\ pc = "compare"
    /\ store' = save_to_database(store, new_table)
    /\ Raise("io_read")
    /\ UNCHANGED << data, new_table, branch, diffs, result, report, key, store0, prev >>

\* line 185: the database cannot be reached from compare_tables
CompareRaises ==
    /\ pc = "compare"
    /\ Raise("io_read")
    /\ UNCHANGED << store, data, new_table, branch, diffs, result, report, key,
                    store0, prev >>

\* lines 182-183 and 186-187: save_to_database(new_table); return
Save ==
    /\ pc = "save"
    /\ store' = save_to_database(store, new_table)
    /\ result' = IF branch = "first" THEN EmptyMap ELSE diffs
    /\ ret' = "value"
    /\ pc' = "returned"
    /\ UNCHANGED << data, new_table, branch, diffs, err, report, key, store0, prev >>

\* lines 182 and 186: the write fails; to_sql has no rollback, so the table is
\* as before, dropped, or created without rows.
SaveRaises ==
    /\ pc = "save"
    /\ store' \in {store, NoTable, Table(<< >>)}
    /\ Raise("io_write")
    /\ UNCHANGED << data, new_table, branch, diffs, result, report, key, store0, prev >>

\* format_to_html_summary(df) on one of the returned datasets
FormatSummary(k) ==
    /\ pc = "returned"
    /\ k \in DOMAIN result
    /\ report' = format_to_html_summary(result[k])
    /\ key' = k
    /\ pc' = "reported"
    /\ UNCHANGED << store, data, new_table, branch, diffs, ret, result, err,
                    store0, prev >>

\* The invocation is over: its locals are gone, the table stays.
Exit ==
    /\ pc \in {"returned", "reported", "failed"}
    /\ pc' = "idle"
    /\ prev' = IF ret = "value" THEN [valid |-> TRUE, rows |-> new_table] ELSE NoPrev
    /\ store0' = store
    /\ data' = << >>
    /\ new_table' = << >>
    /\ branch' = "none"
    /\ diffs' = EmptyMap
    /\ ret' = "none"
    /\ result' = EmptyMap
    /\ err' = "none"
    /\ report' = << >>
    /\ key' = "none"
    /\ UNCHANGED store

Next ==
    \/ \E d \in Datasets : GetData(d)
    \/ GetDataRaises
    \/ AppendHashid
    \/ AppendHashidRaises
    \/ Check
    \/ CheckRaises
    \/ Compare
    \/ CompareRaises
    \/ Save
    \/ SaveRaises
    \/ \E k \in {"Added", "Removed"} : FormatSummary(k)
    \/ Exit

Spec == Init /\ [][Next]_vars

----------------------------------------------------------------------------
\* Properties

RowsOf(t) == {t[i] : i \in 1..Len(t)}

Hashes(t) == {t[i]["hashid"] : i \in 1..Len(t)}

\* The rows of table a whose hashid is not in table b.
OnlyIn(a, b) == {r \in RowsOf(a) : r["hashid"] \notin Hashes(b)}

\* The rows under key k of mapping m; none when the key is absent.
KeyRows(m, k) == IF k \in DOMAIN m THEN RowsOf(m[k]) ELSE {}

\* Mapping m is the fingerprint diff of tables new and old: Added holds the
\* rows only in new, Removed the rows only in old, and a key is present
\* exactly when its set is not empty.
IsDiffOf(m, new, old) ==
    /\ KeyRows(m, "Added") = OnlyIn(new, old)
    /\ KeyRows(m, "Removed") = OnlyIn(old, new)
    /\ ("Added" \in DOMAIN m) <=> (OnlyIn(new, old) # {})
    /\ ("Removed" \in DOMAIN m) <=> (OnlyIn(old, new) # {})

\* compare_tables has returned into run_quote_check; the table is still the
\* one it read.
Compared == pc = "save" /\ branch = "diff"

Returned == pc \in {"returned", "reported"}

\* C1: compare_tables returns Added = the records whose hashid is in the new
\* snapshot and not in the persisted one, Removed = those whose hashid is in
\* the persisted one and not in the new one, and no key for an empty set.
C1_DiffByHashid ==
    Compared => IsDiffOf(diffs, new_table, get_saved_data(store))

\* C2: diffing a snapshot against itself gives the empty mapping, also when
\* a record has no value in 'Project Name'.
C2_SelfDiffEmpty ==
    (Compared /\ get_saved_data(store) = new_table) => diffs = EmptyMap

Faults == {"fetch", "hash", "io_read", "io_write"}

\* C4: on a first run, with a table never written, the read does not fail,
\* run_quote_check returns the empty mapping and the table then holds the
\* new snapshot.
C4_FirstRun ==
    (~store0.exists /\ pc \in {"returned", "reported", "failed"} /\ err \notin Faults)
        => (ret = "value" /\ result = EmptyMap /\ store = Table(new_table))

\* C5: a run that fails before its write (in append_hashid_col, in the read
\* of the table or in compare_tables) raises, returns no mapping and leaves
\* the table as it was when the run began.
C5_FailureKeepsStore ==
    (pc = "failed" /\ err \in {"hash", "no_table", "io_read"})
        => (store = store0 /\ ret = "raised" /\ result = EmptyMap)

\* C5 witness: compare_tables failed in a run whose snapshot differs from the
\* rows of the table.
C5_Witness ==
    /\ pc = "failed"
    /\ err = "io_read"
    /\ branch = "diff"
    /\ store0.rows # new_table
    /\ store = store0

NoDuplicateHashid(t) ==
    \A i, j \in 1..Len(t) : i # j => t[i]["hashid"] # t[j]["hashid"]

\* C6: hashids are unique within the snapshot append_hashid_col builds and
\* within the one save_to_database writes: identical records are one entry.
C6_UniqueHashid ==
    NoDuplicateHashid(new_table) /\ NoDuplicateHashid(store.rows)

\* The rows of df with the values of project on all seven project columns.
RowsOfProject(df, project) == SelectSeq(df, LAMBDA row : ProjectOf(row) = project)

\* The position of the first row of df that belongs to project.
FirstSeen(df, project) ==
    CHOOSE i \in 1..Len(df) :
        /\ ProjectOf(df[i]) = project
        /\ \A j \in 1..(i - 1) : ProjectOf(df[j]) # project

\* C7: every distinct combination of the project columns has one block, in
\* first-seen order, and the detail table of a block holds exactly the rows
\* of the input that equal its key on every project column, in row order.
C7_GroupsExact ==
    pc = "reported" =>
        LET df == result[key]
            n == Len(report)
        IN /\ {report[i].project : i \in 1..n} = {ProjectOf(df[i]) : i \in 1..Len(df)}
           /\ \A i, j \in 1..n :
                  i < j => FirstSeen(df, report[i].project) < FirstSeen(df, report[j].project)
           /\ \A i \in 1..n :
                  LET own == RowsOfProject(df, report[i].project)
                  IN report[i].records = [m \in 1..Len(own) |-> DetailOf(own[m])]

\* Rows r and s differ in exactly one column.
OneCellApart(r, s) == Cardinality({c \in ColSet : r[c] # s[c]}) = 1

\* C8: replacing the value of one column by a different value changes the
\* hashid (sha256 taken as injective).
C8_Sensitivity ==
    \A i, j \in 1..Len(new_table) :
        OneCellApart(data[i], data[j]) => new_table[i]["hashid"] # new_table[j]["hashid"]

\* C9: the mapping returned by a run that follows a run that returned is the
\* diff between this run's snapshot and the previous run's snapshot: a record
\* is Added exactly when it is present now and was absent then, Removed
\* exactly when it was present then and is absent now, and the mapping is
\* empty when the two snapshots are equal.  Stated for a previous snapshot
\* that has rows; the previous snapshot without rows is the case of C10.
C9_DiffOfConsecutiveRuns ==
    (Returned /\ prev.valid /\ prev.rows # << >>)
        => IsDiffOf(result, new_table, prev.rows)

\* The table held no rows when the run began.
ZeroRowStore == store0.exists /\ store0.rows = << >>

\* C10: a run that finds a table without rows computes no diff, returns the
\* empty mapping and writes the new snapshot.
C10_ZeroRowsIsFirstRun ==
    ZeroRowStore =>
        /\ pc # "compare"
        /\ branch # "diff"
        /\ diffs = EmptyMap
        /\ Returned => (result = EmptyMap /\ store = Table(new_table))

\* C10 witness: a run with rows has returned over a table without rows.
C10_Witness ==
    /\ ZeroRowStore
    /\ pc = "returned"
    /\ new_table # << >>
    /\ branch = "first"

=============================================================================
